---- MODULE Spec2Model ----
(***************************************************************************)
(* ssh2fwd: a local TCP listener whose connections are tunnelled through   *)
(* direct-tcpip channels of one authenticated SSH session (src/main.rs).   *)
(*                                                                         *)
(* The model follows main(): the authentication phase, the bind, the       *)
(* accept loop, and for every accepted connection the spawned task         *)
(* (channel set-up, the two blocking copy loops t1 and t2, the joins and   *)
(* the two set_timeout calls on the shared session).                       *)
(***************************************************************************)
EXTENDS Integers, Sequences, FiniteSets, TLC

(* ---- bounds of the model ---- *)

\* connections the listener accepts in one run (the source's loop is unbounded)
MaxConns == 2
\* failed password attempts in one run (the source's loop is unbounded)
MaxFails == 2
\* size of one copy buffer.  The source allocates vec![0; 1024] (main.rs:153
\* and :180); the model keeps the buffer a parameter and explores small
\* sizes, with streams longer than one buffer.
BufSize == 2
\* bytes one endpoint (a local socket, a channel) delivers in one run
MaxStream == BufSize + 1
\* bytes all endpoints together deliver in one run: two streams of full length
MaxBytes == 2 * MaxStream
\* I/O calls of the spawned tasks that return a non-timeout Err in one run
MaxFaults == 1
\* reads that return the TimedOut error in one run
MaxTimeouts == 1

(* ---- program constants ---- *)

\* ssh2::Session::new(): no timeout set
InitialTimeout == 0
\* handle_session.set_timeout(20)
ShortTimeout == 20
\* handle_session.set_timeout(3000)
LongTimeout == 3000
\* Arc::new(Mutex::new(0))
FirstStreamId == 0

Conns == 1..MaxConns

VARIABLES
    mainPc,         \* position of main(): "agent", "prompt", "backoff", "bind",
                    \*   "accept", "exit" (main returned Err), "panic"
    authenticated,  \* session.authenticated()
    agentAttempts,  \* calls of session.userauth_agent
    pwAttempts,     \* calls of session.userauth_password
    pwFails,        \* calls of session.userauth_password that returned Err
    timeout,        \* the session's timeout, shared by every clone of the handle
    nConns,         \* connections accepted so far; connection i is the i-th
    opens,          \* channel_direct_tcpip requests issued on the session
    pump,           \* pump[i]: position of the task spawned for connection i
    counter,        \* counter[i]: the Arc<Mutex<i32>> created for connection i,
                    \*   for the connections accepted so far
    streamId,       \* streamId[i]: the id given to c.stream() for connection i,
                    \*   for the connections whose channel is open
    t1pc, t1why, buf1, locRead, chanWritten,   \* local -> remote loop
    t2pc, t2why, buf2, chanRead, locWritten,   \* remote -> local loop
    faults,         \* non-timeout errors the spawned tasks have met so far
    timeouts        \* TimedOut errors the copy loops have met so far

mainVars == <<mainPc, authenticated, agentAttempts, pwAttempts, pwFails>>
connVars == <<nConns, opens, pump, counter, streamId>>
t1Vars   == <<t1pc, t1why, buf1, locRead, chanWritten>>
t2Vars   == <<t2pc, t2why, buf2, chanRead, locWritten>>
envVars  == <<faults, timeouts>>
vars     == <<mainVars, timeout, connVars, t1Vars, t2Vars, envVars>>

(* ---- the byte streams of the environment ---- *)

\* the p-th byte the client of connection i sends into its local socket
LocalByte(i, p) == <<"local", i, p>>
\* the p-th byte the remote server of connection i sends into its channel
ChanByte(i, p) == <<"chan", i, p>>

\* the n bytes that follow the `done` bytes already read
LocalChunk(i, done, n) == [k \in 1..n |-> LocalByte(i, done + k)]
ChanChunk(i, done, n) == [k \in 1..n |-> ChanByte(i, done + k)]

Min(a, b) == IF a < b THEN a ELSE b

\* bytes read so far from all local sockets and channels
RECURSIVE BytesRead(_, _, _)
BytesRead(lr, cr, n) ==
    IF n = 0 THEN 0 ELSE Len(lr[n]) + Len(cr[n]) + BytesRead(lr, cr, n - 1)

\* the sizes a read of connection i's stream, `done` bytes of it read, may return
ReadSizes(done, total) == 1..Min(BufSize, Min(MaxStream - done, MaxBytes - total))

IsPrefix(s, t) == Len(s) <= Len(t) /\ SubSeq(t, 1, Len(s)) = s

Init ==
    /\ mainPc = "agent"
    /\ authenticated = FALSE
    /\ agentAttempts = 0
    /\ pwAttempts = 0
    /\ pwFails = 0
    /\ timeout = InitialTimeout
    /\ nConns = 0
    /\ opens = 0
    /\ pump = [i \in Conns |-> "none"]
    /\ counter = <<>>
    /\ streamId = <<>>
    /\ t1pc = [i \in Conns |-> "idle"]
    /\ t1why = [i \in Conns |-> "none"]
    /\ buf1 = [i \in Conns |-> <<>>]
    /\ locRead = [i \in Conns |-> <<>>]
    /\ chanWritten = [i \in Conns |-> <<>>]
    /\ t2pc = [i \in Conns |-> "idle"]
    /\ t2why = [i \in Conns |-> "none"]
    /\ buf2 = [i \in Conns |-> <<>>]
    /\ chanRead = [i \in Conns |-> <<>>]
    /\ locWritten = [i \in Conns |-> <<>>]
    /\ faults = 0
    /\ timeouts = 0

(* ---- main(): authentication ---- *)

\* session.userauth_agent(&sshuser) returns Ok: authenticated() is true, the
\* password branch is skipped
AgentOk ==
    /\ mainPc = "agent"
    /\ agentAttempts' = agentAttempts + 1
    /\ authenticated' = TRUE
    /\ mainPc' = "bind"
    /\ UNCHANGED <<pwAttempts, pwFails, timeout, connVars, t1Vars, t2Vars, envVars>>

\* AgentErr without the password loop: the failure is logged and main goes on
AgentErrNoLoop ==
    /\ mainPc = "agent"
    /\ agentAttempts' = agentAttempts + 1
    /\ mainPc' = "bind"
    /\ UNCHANGED <<authenticated, pwAttempts, pwFails, timeout, connVars, t1Vars, t2Vars, envVars>>

\* AgentErr with the error propagated by `?`: main returns it
AgentErrFatal ==
    /\ mainPc = "agent"
    /\ agentAttempts' = agentAttempts + 1
    /\ mainPc' = "exit"
    /\ UNCHANGED <<authenticated, pwAttempts, pwFails, timeout, connVars, t1Vars, t2Vars, envVars>>

\* session.userauth_agent(&sshuser) returns Err: warn!, then the while loop
AgentErr ==
    /\ mainPc = "agent"
    /\ agentAttempts' = agentAttempts + 1
    /\ mainPc' = "prompt"
    /\ UNCHANGED <<authenticated, pwAttempts, pwFails, timeout, connVars, t1Vars, t2Vars, envVars>>

\* rpassword::prompt_password(..).unwrap() on an Err: main panics
PromptErr ==
    /\ mainPc = "prompt"
    /\ ~authenticated
    /\ mainPc' = "panic"
    /\ UNCHANGED <<authenticated, agentAttempts, pwAttempts, pwFails, timeout,
                   connVars, t1Vars, t2Vars, envVars>>

\* one iteration of the while loop with a password the server accepts
PasswordOk ==
    /\ mainPc = "prompt"
    /\ ~authenticated
    /\ pwAttempts' = pwAttempts + 1
    /\ authenticated' = TRUE
    /\ mainPc' = "bind"
    /\ UNCHANGED <<agentAttempts, pwFails, timeout, connVars, t1Vars, t2Vars, envVars>>

\* PasswordErr with the error propagated by `?`: main returns it
PasswordErrFatal ==
    /\ mainPc = "prompt"
    /\ ~authenticated
    /\ pwFails < MaxFails
    /\ pwAttempts' = pwAttempts + 1
    /\ pwFails' = pwFails + 1
    /\ mainPc' = "exit"
    /\ UNCHANGED <<authenticated, agentAttempts, timeout, connVars, t1Vars, t2Vars, envVars>>

\* one iteration with a password the server refuses: error!, then the sleep
PasswordErr ==
    /\ mainPc = "prompt"
    /\ ~authenticated
    /\ pwFails < MaxFails
    /\ pwAttempts' = pwAttempts + 1
    /\ pwFails' = pwFails + 1
    /\ mainPc' = "backoff"
    /\ UNCHANGED <<authenticated, agentAttempts, timeout, connVars, t1Vars, t2Vars, envVars>>

\* sleep(Duration::from_millis(1000)).await ends; the loop tests authenticated()
Backoff ==
    /\ mainPc = "backoff"
    /\ mainPc' = IF authenticated THEN "bind" ELSE "prompt"
    /\ UNCHANGED <<authenticated, agentAttempts, pwAttempts, pwFails, timeout,
                   connVars, t1Vars, t2Vars, envVars>>

(* ---- main(): the listener ---- *)

BindOk ==
    /\ mainPc = "bind"
    /\ mainPc' = "accept"
    /\ UNCHANGED <<authenticated, agentAttempts, pwAttempts, pwFails, timeout,
                   connVars, t1Vars, t2Vars, envVars>>

\* TcpListener::bind(localsrv).await? on an Err: main returns the error
BindErr ==
    /\ mainPc = "bind"
    /\ mainPc' = "exit"
    /\ UNCHANGED <<authenticated, agentAttempts, pwAttempts, pwFails, timeout,
                   connVars, t1Vars, t2Vars, envVars>>

\* Accept with the pump awaited in the loop instead of spawned: the next accept
\* waits until every earlier pump has ended
AcceptAfterPumps ==
    /\ mainPc = "accept"
    /\ nConns < MaxConns
    /\ \A j \in 1..nConns : pump[j] \in {"done", "panicked"}
    /\ nConns' = nConns + 1
    /\ counter' = counter @@ ((nConns + 1) :> FirstStreamId)
    /\ pump' = [pump EXCEPT ![nConns + 1] = "spawned"]
    /\ UNCHANGED <<mainVars, timeout, opens, streamId, t1Vars, t2Vars, envVars>>

\* one iteration of the loop: accept, session.clone(), a new counter, spawn
Accept ==
    /\ mainPc = "accept"
    /\ nConns < MaxConns
    /\ nConns' = nConns + 1
    /\ counter' = counter @@ ((nConns + 1) :> FirstStreamId)
    /\ pump' = [pump EXCEPT ![nConns + 1] = "spawned"]
    /\ UNCHANGED <<mainVars, timeout, opens, streamId, t1Vars, t2Vars, envVars>>

\* listener.accept().await? on an Err: main returns the error
AcceptErr ==
    /\ mainPc = "accept"
    /\ mainPc' = "exit"
    /\ UNCHANGED <<authenticated, agentAttempts, pwAttempts, pwFails, timeout,
                   connVars, t1Vars, t2Vars, envVars>>

(* ---- the spawned task of connection i ---- *)

\* a task suspended at an .await is dropped when main has returned or panicked
Alive == mainPc \notin {"exit", "panic"}

\* get_channels_for_remote_server returns Ok: lock the counter, open the
\* channel, take the two streams with the counter's value, increment it
OpenOk(i) ==
    /\ pump[i] = "spawned"
    /\ opens' = opens + 1
    /\ streamId' = streamId @@ (i :> counter[i])
    /\ counter' = [counter EXCEPT ![i] = counter[i] + 1]
    /\ pump' = [pump EXCEPT ![i] = "opened"]
    /\ UNCHANGED <<mainVars, timeout, nConns, t1Vars, t2Vars, envVars>>

\* OpenErr with the channel opened in the accept loop and the error propagated
\* by `?`: main returns it
OpenErrFatal(i) ==
    /\ pump[i] = "spawned"
    /\ opens' = opens + 1
    /\ pump' = [pump EXCEPT ![i] = "panicked"]
    /\ mainPc' = "exit"
    /\ faults < MaxFaults
    /\ faults' = faults + 1
    /\ UNCHANGED <<authenticated, agentAttempts, pwAttempts, pwFails, timeout, nConns,
                   counter, streamId, t1Vars, t2Vars, timeouts>>

\* OpenErr with a retry in place of the unwrap: the task asks again
OpenErrRetry(i) ==
    /\ pump[i] = "spawned"
    /\ opens' = opens + 1
    /\ faults < MaxFaults
    /\ faults' = faults + 1
    /\ UNCHANGED <<mainVars, timeout, nConns, pump, counter, streamId, t1Vars, t2Vars, timeouts>>

\* OpenErr with the timeout restored on the way out
OpenErrRestores(i) ==
    /\ pump[i] = "spawned"
    /\ opens' = opens + 1
    /\ pump' = [pump EXCEPT ![i] = "panicked"]
    /\ timeout' = LongTimeout
    /\ faults < MaxFaults
    /\ faults' = faults + 1
    /\ UNCHANGED <<mainVars, nConns, counter, streamId, t1Vars, t2Vars, timeouts>>

\* get_channels_for_remote_server returns Err: .unwrap() panics the task
OpenErr(i) ==
    /\ pump[i] = "spawned"
    /\ opens' = opens + 1
    /\ pump' = [pump EXCEPT ![i] = "panicked"]
    /\ faults < MaxFaults
    /\ faults' = faults + 1
    /\ UNCHANGED <<mainVars, timeout, nConns, counter, streamId, t1Vars, t2Vars, timeouts>>

\* Start without the set_timeout(20)
StartNoLower(i) ==
    /\ pump[i] = "opened"
    /\ t1pc' = [t1pc EXCEPT ![i] = "read"]
    /\ t2pc' = [t2pc EXCEPT ![i] = "read"]
    /\ pump' = [pump EXCEPT ![i] = "running"]
    /\ UNCHANGED <<mainVars, timeout, nConns, opens, counter, streamId,
                   t1why, buf1, locRead, chanWritten,
                   t2why, buf2, chanRead, locWritten, envVars>>

\* socket.into_split(); set_timeout(20); the two spawn_blocking calls
Start(i) ==
    /\ pump[i] = "opened"
    /\ timeout' = ShortTimeout
    /\ t1pc' = [t1pc EXCEPT ![i] = "read"]
    /\ t2pc' = [t2pc EXCEPT ![i] = "read"]
    /\ pump' = [pump EXCEPT ![i] = "running"]
    /\ UNCHANGED <<mainVars, nConns, opens, counter, streamId,
                   t1why, buf1, locRead, chanWritten,
                   t2why, buf2, chanRead, locWritten, envVars>>

\* Join1 with the set_timeout(3000) placed between the two awaits
Join1Restores(i) ==
    /\ Alive
    /\ pump[i] = "running"
    /\ t1pc[i] = "stopped"
    /\ timeout' = LongTimeout
    /\ pump' = [pump EXCEPT ![i] = "joined1"]
    /\ UNCHANGED <<mainVars, nConns, opens, counter, streamId, t1Vars, t2Vars, envVars>>

\* t1.await.unwrap() returns
Join1(i) ==
    /\ Alive
    /\ pump[i] = "running"
    /\ t1pc[i] = "stopped"
    /\ pump' = [pump EXCEPT ![i] = "joined1"]
    /\ UNCHANGED <<mainVars, timeout, nConns, opens, counter, streamId, t1Vars, t2Vars, envVars>>

\* Join2 without the await of t2: the task restores the timeout and ends as
\* soon as t1 has been joined
Join2NoWait(i) ==
    /\ Alive
    /\ pump[i] = "joined1"
    /\ timeout' = LongTimeout
    /\ pump' = [pump EXCEPT ![i] = "done"]
    /\ UNCHANGED <<mainVars, nConns, opens, counter, streamId, t1Vars, t2Vars, envVars>>

\* Join2 without the set_timeout(3000)
Join2NoRestore(i) ==
    /\ Alive
    /\ pump[i] = "joined1"
    /\ t2pc[i] = "stopped"
    /\ pump' = [pump EXCEPT ![i] = "done"]
    /\ UNCHANGED <<mainVars, timeout, nConns, opens, counter, streamId, t1Vars, t2Vars, envVars>>

\* t2.await.unwrap() returns; set_timeout(3000); the task ends
Join2(i) ==
    /\ Alive
    /\ pump[i] = "joined1"
    /\ t2pc[i] = "stopped"
    /\ timeout' = LongTimeout
    /\ pump' = [pump EXCEPT ![i] = "done"]
    /\ UNCHANGED <<mainVars, nConns, opens, counter, streamId, t1Vars, t2Vars, envVars>>

(* ---- t1: local socket -> channel ---- *)

\* block_on(local_rd.read(&mut buf)) returns Ok(n), n > 0
T1Read(i) ==
    /\ t1pc[i] = "read"
    /\ \E n \in ReadSizes(Len(locRead[i]), BytesRead(locRead, chanRead, MaxConns)) :
        /\ buf1' = [buf1 EXCEPT ![i] = LocalChunk(i, Len(locRead[i]), n)]
        /\ locRead' = [locRead EXCEPT ![i] = locRead[i] \o LocalChunk(i, Len(locRead[i]), n)]
    /\ t1pc' = [t1pc EXCEPT ![i] = "write"]
    /\ UNCHANGED <<mainVars, timeout, connVars, t1why, chanWritten, t2Vars, envVars>>

\* T1Write with write in place of write_all: a short write passes for a full one
T1WriteShort(i) ==
    /\ t1pc[i] = "write"
    /\ chanWritten' = [chanWritten EXCEPT ![i] = chanWritten[i] \o SubSeq(buf1[i], 1, 1)]
    /\ buf1' = [buf1 EXCEPT ![i] = <<>>]
    /\ t1pc' = [t1pc EXCEPT ![i] = "read"]
    /\ UNCHANGED <<mainVars, timeout, connVars, t1why, locRead, t2Vars, envVars>>

\* T1Write with one channel write half shared by all pumps (the first one's)
T1WriteShared(i) ==
    /\ t1pc[i] = "write"
    /\ chanWritten' = [chanWritten EXCEPT ![1] = chanWritten[1] \o buf1[i]]
    /\ buf1' = [buf1 EXCEPT ![i] = <<>>]
    /\ t1pc' = [t1pc EXCEPT ![i] = "read"]
    /\ UNCHANGED <<mainVars, timeout, connVars, t1why, locRead, t2Vars, envVars>>

\* txchan.write_all(&buf[..n]) returns Ok
T1Write(i) ==
    /\ t1pc[i] = "write"
    /\ chanWritten' = [chanWritten EXCEPT ![i] = chanWritten[i] \o buf1[i]]
    /\ buf1' = [buf1 EXCEPT ![i] = <<>>]
    /\ t1pc' = [t1pc EXCEPT ![i] = "read"]
    /\ UNCHANGED <<mainVars, timeout, connVars, t1why, locRead, t2Vars, envVars>>

\* txchan.write_all(&buf[..n]) returns Err after k < n bytes: error!, break
T1WriteErr(i) ==
    /\ t1pc[i] = "write"
    /\ \E k \in 0..(Len(buf1[i]) - 1) :
        chanWritten' = [chanWritten EXCEPT ![i] = chanWritten[i] \o SubSeq(buf1[i], 1, k)]
    /\ buf1' = [buf1 EXCEPT ![i] = <<>>]
    /\ t1pc' = [t1pc EXCEPT ![i] = "stopped"]
    /\ t1why' = [t1why EXCEPT ![i] = "wrerr"]
    /\ faults < MaxFaults
    /\ faults' = faults + 1
    /\ UNCHANGED <<mainVars, timeout, connVars, locRead, t2Vars, timeouts>>

\* T1Eof with the end of the local stream taken for a fatal error of main
T1EofFatal(i) ==
    /\ t1pc[i] = "read"
    /\ t1pc' = [t1pc EXCEPT ![i] = "stopped"]
    /\ t1why' = [t1why EXCEPT ![i] = "eof"]
    /\ mainPc' = "exit"
    /\ UNCHANGED <<authenticated, agentAttempts, pwAttempts, pwFails, timeout, connVars,
                   buf1, locRead, chanWritten, t2Vars, envVars>>

\* T1Eof with a cancellation of the other loop of the connection
T1EofCancels(i) ==
    /\ t1pc[i] = "read"
    /\ t1pc' = [t1pc EXCEPT ![i] = "stopped"]
    /\ t1why' = [t1why EXCEPT ![i] = "eof"]
    /\ t2pc' = [t2pc EXCEPT ![i] = "stopped"]
    /\ t2why' = [t2why EXCEPT ![i] = "eof"]
    /\ UNCHANGED <<mainVars, timeout, connVars, buf1, locRead, chanWritten,
                   buf2, chanRead, locWritten, envVars>>

\* the read returns Ok(0): warn!, break
T1Eof(i) ==
    /\ t1pc[i] = "read"
    /\ t1pc' = [t1pc EXCEPT ![i] = "stopped"]
    /\ t1why' = [t1why EXCEPT ![i] = "eof"]
    /\ UNCHANGED <<mainVars, timeout, connVars, buf1, locRead, chanWritten, t2Vars, envVars>>

\* T1Timeout without the TimedOut guard: the error falls into the general Err
\* branch and breaks the loop
T1TimeoutBreak(i) ==
    /\ t1pc[i] = "read"
    /\ t1pc' = [t1pc EXCEPT ![i] = "stopped"]
    /\ t1why' = [t1why EXCEPT ![i] = "rderr"]
    /\ timeouts < MaxTimeouts
    /\ timeouts' = timeouts + 1
    /\ UNCHANGED <<mainVars, timeout, connVars, buf1, locRead, chanWritten, t2Vars, faults>>

\* the read returns Err of kind TimedOut: continue
T1Timeout(i) ==
    /\ t1pc[i] = "read"
    /\ timeouts < MaxTimeouts
    /\ timeouts' = timeouts + 1
    /\ UNCHANGED <<mainVars, timeout, connVars, t1Vars, t2Vars, faults>>

\* the read returns another Err: error!, break
T1ReadErr(i) ==
    /\ t1pc[i] = "read"
    /\ t1pc' = [t1pc EXCEPT ![i] = "stopped"]
    /\ t1why' = [t1why EXCEPT ![i] = "rderr"]
    /\ faults < MaxFaults
    /\ faults' = faults + 1
    /\ UNCHANGED <<mainVars, timeout, connVars, buf1, locRead, chanWritten, t2Vars, timeouts>>

(* ---- t2: channel -> local socket ---- *)

\* rxchan.read(&mut buf) returns Ok(n), n > 0
T2Read(i) ==
    /\ t2pc[i] = "read"
    /\ \E n \in ReadSizes(Len(chanRead[i]), BytesRead(locRead, chanRead, MaxConns)) :
        /\ buf2' = [buf2 EXCEPT ![i] = ChanChunk(i, Len(chanRead[i]), n)]
        /\ chanRead' = [chanRead EXCEPT ![i] = chanRead[i] \o ChanChunk(i, Len(chanRead[i]), n)]
    /\ t2pc' = [t2pc EXCEPT ![i] = "write"]
    /\ UNCHANGED <<mainVars, timeout, connVars, t1Vars, t2why, locWritten, envVars>>

\* T2Write with &buf in place of &buf[..n]: the whole buffer is written, the
\* bytes past n being those of an earlier read or the initial zeros
T2WriteWholeBuf(i) ==
    /\ t2pc[i] = "write"
    /\ locWritten' = [locWritten EXCEPT ![i] =
           locWritten[i] \o buf2[i] \o [k \in 1..(BufSize - Len(buf2[i])) |-> 0]]
    /\ buf2' = [buf2 EXCEPT ![i] = <<>>]
    /\ t2pc' = [t2pc EXCEPT ![i] = "read"]
    /\ UNCHANGED <<mainVars, timeout, connVars, t1Vars, t2why, chanRead, envVars>>

\* block_on(local_wr.write_all(&buf[..n])) returns Ok
T2Write(i) ==
    /\ t2pc[i] = "write"
    /\ locWritten' = [locWritten EXCEPT ![i] = locWritten[i] \o buf2[i]]
    /\ buf2' = [buf2 EXCEPT ![i] = <<>>]
    /\ t2pc' = [t2pc EXCEPT ![i] = "read"]
    /\ UNCHANGED <<mainVars, timeout, connVars, t1Vars, t2why, chanRead, envVars>>

\* T2WriteErr with continue in place of break: the loop reads on
T2WriteErrContinue(i) ==
    /\ t2pc[i] = "write"
    /\ \E k \in 0..(Len(buf2[i]) - 1) :
        locWritten' = [locWritten EXCEPT ![i] = locWritten[i] \o SubSeq(buf2[i], 1, k)]
    /\ buf2' = [buf2 EXCEPT ![i] = <<>>]
    /\ t2pc' = [t2pc EXCEPT ![i] = "read"]
    /\ t2why' = [t2why EXCEPT ![i] = "wrerr"]
    /\ faults < MaxFaults
    /\ faults' = faults + 1
    /\ UNCHANGED <<mainVars, timeout, connVars, t1Vars, chanRead, timeouts>>

\* the write_all returns Err after k < n bytes: error!, break
T2WriteErr(i) ==
    /\ t2pc[i] = "write"
    /\ \E k \in 0..(Len(buf2[i]) - 1) :
        locWritten' = [locWritten EXCEPT ![i] = locWritten[i] \o SubSeq(buf2[i], 1, k)]
    /\ buf2' = [buf2 EXCEPT ![i] = <<>>]
    /\ t2pc' = [t2pc EXCEPT ![i] = "stopped"]
    /\ t2why' = [t2why EXCEPT ![i] = "wrerr"]
    /\ faults < MaxFaults
    /\ faults' = faults + 1
    /\ UNCHANGED <<mainVars, timeout, connVars, t1Vars, chanRead, timeouts>>

\* the read returns Ok(0): warn!, break
T2Eof(i) ==
    /\ t2pc[i] = "read"
    /\ t2pc' = [t2pc EXCEPT ![i] = "stopped"]
    /\ t2why' = [t2why EXCEPT ![i] = "eof"]
    /\ UNCHANGED <<mainVars, timeout, connVars, t1Vars, buf2, chanRead, locWritten, envVars>>

\* the read returns Err of kind TimedOut (the session timeout expired): continue
T2Timeout(i) ==
    /\ t2pc[i] = "read"
    /\ timeout # 0
    /\ timeouts < MaxTimeouts
    /\ timeouts' = timeouts + 1
    /\ UNCHANGED <<mainVars, timeout, connVars, t1Vars, t2Vars, faults>>

\* the read returns another Err: error!, break
T2ReadErr(i) ==
    /\ t2pc[i] = "read"
    /\ t2pc' = [t2pc EXCEPT ![i] = "stopped"]
    /\ t2why' = [t2why EXCEPT ![i] = "rderr"]
    /\ faults < MaxFaults
    /\ faults' = faults + 1
    /\ UNCHANGED <<mainVars, timeout, connVars, t1Vars, buf2, chanRead, locWritten, timeouts>>

Next ==
    \/ AgentOk
    \/ AgentErr
    \/ PromptErr
    \/ PasswordOk
    \/ PasswordErr
    \/ Backoff
    \/ BindOk
    \/ BindErr
    \/ Accept
    \/ AcceptErr
    \/ \E i \in Conns : OpenOk(i)
    \/ \E i \in Conns : OpenErr(i)
    \/ \E i \in Conns : Start(i)
    \/ \E i \in Conns : Join1(i)
    \/ \E i \in Conns : Join2(i)
    \/ \E i \in Conns : T1Read(i)
    \/ \E i \in Conns : T1Write(i)
    \/ \E i \in Conns : T1WriteErr(i)
    \/ \E i \in Conns : T1Eof(i)
    \/ \E i \in Conns : T1Timeout(i)
    \/ \E i \in Conns : T1ReadErr(i)
    \/ \E i \in Conns : T2Read(i)
    \/ \E i \in Conns : T2Write(i)
    \/ \E i \in Conns : T2WriteErr(i)
    \/ \E i \in Conns : T2Eof(i)
    \/ \E i \in Conns : T2Timeout(i)
    \/ \E i \in Conns : T2ReadErr(i)

Spec == Init /\ [][Next]_vars

(***************************************************************************)
(* get_channels_for_remote_server called by several tasks on clones of ONE *)
(* counter (stream_ref: Arc<Mutex<i32>>).  main() never does this, it      *)
(* gives every task a counter of its own; this specification is the        *)
(* function's contract towards its counter, step by step: the lock, the    *)
(* channel open with the two c.stream calls, the increment, the            *)
(* return (which drops the guard).  pump[c] is the position of caller c,   *)
(* counter[1] the shared counter, streamId[c] the id caller c's streams    *)
(* got.                                                                    *)
(***************************************************************************)

\* tasks that call the function on the same counter
MaxCallers == 4

Callers == 1..MaxCallers

\* the callers that hold the MutexGuard
Holders == {c \in Callers : pump[c] \in {"locked", "streams"}}

InitBroker ==
    /\ mainPc = "accept"
    /\ authenticated = TRUE
    /\ agentAttempts = 1
    /\ pwAttempts = 0
    /\ pwFails = 0
    /\ timeout = InitialTimeout
    /\ nConns = 0
    /\ opens = 0
    /\ pump = [c \in Callers |-> "spawned"]
    /\ counter = (1 :> FirstStreamId)
    /\ streamId = <<>>
    /\ t1pc = [i \in Conns |-> "idle"]
    /\ t1why = [i \in Conns |-> "none"]
    /\ buf1 = [i \in Conns |-> <<>>]
    /\ locRead = [i \in Conns |-> <<>>]
    /\ chanWritten = [i \in Conns |-> <<>>]
    /\ t2pc = [i \in Conns |-> "idle"]
    /\ t2why = [i \in Conns |-> "none"]
    /\ buf2 = [i \in Conns |-> <<>>]
    /\ chanRead = [i \in Conns |-> <<>>]
    /\ locWritten = [i \in Conns |-> <<>>]
    /\ faults = 0
    /\ timeouts = 0

\* BrokerLock on a counter that is a plain shared integer: nothing to wait for
BrokerLockNoMutex(c) ==
    /\ pump[c] = "spawned"
    /\ pump' = [pump EXCEPT ![c] = "locked"]
    /\ UNCHANGED <<mainVars, timeout, nConns, opens, counter, streamId, t1Vars, t2Vars, envVars>>

\* block_on(stream_ref.lock()) returns the guard: no other caller holds it
BrokerLock(c) ==
    /\ pump[c] = "spawned"
    /\ Holders = {}
    /\ pump' = [pump EXCEPT ![c] = "locked"]
    /\ UNCHANGED <<mainVars, timeout, nConns, opens, counter, streamId, t1Vars, t2Vars, envVars>>

\* channel_direct_tcpip returns Ok(c): the two streams take the counter's value
BrokerChannelOk(c) ==
    /\ pump[c] = "locked"
    /\ opens' = opens + 1
    /\ streamId' = streamId @@ (c :> counter[1])
    /\ pump' = [pump EXCEPT ![c] = "streams"]
    /\ UNCHANGED <<mainVars, timeout, nConns, counter, t1Vars, t2Vars, envVars>>

\* *stream_id += 1; Ok(..) is returned and the guard dropped
BrokerIncrement(c) ==
    /\ pump[c] = "streams"
    /\ counter' = [counter EXCEPT ![1] = counter[1] + 1]
    /\ pump' = [pump EXCEPT ![c] = "opened"]
    /\ UNCHANGED <<mainVars, timeout, nConns, opens, streamId, t1Vars, t2Vars, envVars>>

\* channel_direct_tcpip returns Err: error!, Err(e.into()) is returned and the
\* guard dropped (the caller's unwrap panics)
BrokerChannelErr(c) ==
    /\ pump[c] = "locked"
    /\ opens' = opens + 1
    /\ pump' = [pump EXCEPT ![c] = "panicked"]
    /\ UNCHANGED <<mainVars, timeout, nConns, counter, streamId, t1Vars, t2Vars, envVars>>

NextBroker ==
    \/ \E c \in Callers : BrokerLock(c)
    \/ \E c \in Callers : BrokerChannelOk(c)
    \/ \E c \in Callers : BrokerIncrement(c)
    \/ \E c \in Callers : BrokerChannelErr(c)

SpecBroker == InitBroker /\ [][NextBroker]_vars

(***************************************************************************)
(* The claims                                                              *)
(***************************************************************************)

\* C1: any two channels opened on the session have distinct stream ids, also
\* when they are set up concurrently and after one of them has closed.
C1_StreamIdsDistinct ==
    \A i, j \in DOMAIN streamId : i # j => streamId[i] # streamId[j]

\* C2: local -> remote.  The bytes read from the local socket are the bytes
\* the client sent, in order; the bytes written to the channel are always a
\* prefix of them, a chunk holds at most BufSize bytes, a chunk read and not
\* yet written is exactly the missing tail, and when the loop stops on a
\* 0-byte read the channel has received all of them.
C2_LocalToRemoteInOrder ==
    \A i \in Conns :
        /\ locRead[i] = LocalChunk(i, 0, Len(locRead[i]))
        /\ IsPrefix(chanWritten[i], locRead[i])
        /\ Len(buf1[i]) <= BufSize
        /\ t1pc[i] = "write" => chanWritten[i] \o buf1[i] = locRead[i]
        /\ (t1pc[i] = "stopped" /\ t1why[i] = "eof") => chanWritten[i] = locRead[i]

\* a stream longer than one buffer went through completely and ended on a 0-byte read
C2_Witness ==
    \E i \in Conns :
        /\ t1pc[i] = "stopped" /\ t1why[i] = "eof"
        /\ Len(locRead[i]) > BufSize
        /\ chanWritten[i] = locRead[i]

\* C3: remote -> local.  The bytes read from the channel are the bytes the
\* remote side sent, in order; the bytes written to the local socket are
\* always a prefix of them, and when the loop stops on a 0-byte channel read
\* the local socket has received all of them.
C3_RemoteToLocalInOrder ==
    \A i \in Conns :
        /\ chanRead[i] = ChanChunk(i, 0, Len(chanRead[i]))
        /\ IsPrefix(locWritten[i], chanRead[i])
        /\ Len(buf2[i]) <= BufSize
        /\ t2pc[i] = "write" => locWritten[i] \o buf2[i] = chanRead[i]
        /\ (t2pc[i] = "stopped" /\ t2why[i] = "eof") => locWritten[i] = chanRead[i]

C3_Witness ==
    \E i \in Conns :
        /\ t2pc[i] = "stopped" /\ t2why[i] = "eof"
        /\ Len(chanRead[i]) > BufSize
        /\ locWritten[i] = chanRead[i]

\* C4: every byte written to connection i's channel is a byte of connection
\* i's local socket, and every byte written to connection i's local socket is
\* a byte of connection i's channel, under every interleaving of the pumps.
C4_PayloadsNotMixed ==
    \A i \in Conns :
        /\ \A k \in 1..Len(chanWritten[i]) :
              \E p \in 1..MaxStream : chanWritten[i][k] = LocalByte(i, p)
        /\ \A k \in 1..Len(locWritten[i]) :
              \E p \in 1..MaxStream : locWritten[i][k] = ChanByte(i, p)

\* two pumps run at the same time and each has forwarded more than one buffer
C4_Witness ==
    /\ pump[1] = "running" /\ pump[2] = "running"
    /\ Len(chanWritten[1]) > BufSize
    /\ Len(chanWritten[2]) > BufSize

\* C5: a 0-byte read on connection i's local socket stops connection i's
\* local -> remote loop and changes nothing else: not main (the listener),
\* not the session, not the other loop of the connection, no other connection.
C5_LocalEofStopsOnlyItsDirection ==
    [][\A i \in Conns :
          (t1pc[i] = "read" /\ t1pc'[i] = "stopped" /\ t1why'[i] = "eof") =>
              /\ UNCHANGED <<mainVars, timeout, connVars, t2Vars, envVars>>
              /\ UNCHANGED <<buf1, locRead, chanWritten>>
              /\ \A j \in Conns \ {i} : t1pc'[j] = t1pc[j] /\ t1why'[j] = t1why[j]]_vars

\* a loop stopped on a 0-byte read while the listener accepts and another
\* connection's loops run
C5_Witness ==
    \E i, j \in Conns :
        /\ i # j
        /\ t1pc[i] = "stopped" /\ t1why[i] = "eof"
        /\ mainPc = "accept"
        /\ pump[j] = "running" /\ t1pc[j] = "read" /\ t2pc[j] = "read"

\* C6: remote -> local.  A loop that holds n > 0 bytes read from the channel
\* either writes them all and reads again, or, the write failing, stops; and
\* a stopped loop reads nothing more from the channel and writes nothing more
\* to the local socket.
C6_WriteFailureStopsRemoteToLocal ==
    [][\A i \in Conns :
          /\ (t2pc[i] = "write" /\ t2pc'[i] # "write") =>
                \/ t2pc'[i] = "read" /\ locWritten'[i] = locWritten[i] \o buf2[i]
                                     /\ t2why'[i] = t2why[i]
                \/ t2pc'[i] = "stopped" /\ t2why'[i] = "wrerr"
                                        /\ locWritten'[i] # locWritten[i] \o buf2[i]
          /\ t2why'[i] = "wrerr" => t2pc'[i] = "stopped"
          /\ t2pc[i] = "stopped" =>
                /\ t2pc'[i] = "stopped" /\ t2why'[i] = t2why[i]
                /\ chanRead'[i] = chanRead[i] /\ locWritten'[i] = locWritten[i]]_vars

\* a loop stopped by a failed write of bytes it had read from the channel
C6_Witness ==
    \E i \in Conns :
        /\ t2pc[i] = "stopped" /\ t2why[i] = "wrerr"
        /\ Len(chanRead[i]) > Len(locWritten[i])

\* C7: after the agent has failed, every refused password leads to the
\* back-off and from there to the prompt, never out of main; the accepted
\* password leaves the session authenticated with main at the bind, whatever
\* the number of refusals before it.
C7_PasswordRetry ==
    /\ [](/\ pwAttempts \in {pwFails, pwFails + 1}
          /\ pwAttempts > 0 => agentAttempts = 1
          /\ pwAttempts = pwFails + 1 =>
                authenticated /\ mainPc \in {"bind", "accept", "exit"}
          /\ (pwAttempts = pwFails /\ pwAttempts > 0) =>
                ~authenticated /\ mainPc \in {"backoff", "prompt", "panic"})
    /\ [][/\ pwFails' = pwFails + 1 => mainPc = "prompt" /\ mainPc' = "backoff"
          /\ (mainPc = "backoff" /\ mainPc' # "backoff") => mainPc' = "prompt"
          /\ (pwAttempts' = pwAttempts + 1 /\ pwFails' = pwFails) =>
                authenticated' /\ mainPc' = "bind"
          /\ (mainPc = "bind" /\ mainPc' = "accept") => authenticated]_vars

\* MaxFails refused passwords, then the accepted one, and the listener bound
C7_Witness ==
    /\ agentAttempts = 1
    /\ pwFails = MaxFails
    /\ pwAttempts = MaxFails + 1
    /\ authenticated
    /\ mainPc = "accept"

\* C8: a failed channel open ends the task of its connection and changes
\* nothing else: main stays where it is (accepting), the session timeout and
\* every other connection keep their state.
C8_OpenFailureEndsOnlyItsPump ==
    [][\A i \in Conns :
          (pump[i] = "spawned" /\ pump'[i] = "panicked") =>
              /\ UNCHANGED <<mainVars, timeout, nConns, counter, streamId, t1Vars, t2Vars>>
              /\ \A j \in Conns \ {i} : pump'[j] = pump[j]]_vars

\* after a failed open of the first connection the listener has accepted the
\* second one, whose pump runs
C8_Witness ==
    /\ pump[1] = "panicked"
    /\ pump[2] = "running"
    /\ mainPc = "accept"

\* C9: while main is in the accept loop (no accept error yet) the next accept
\* is enabled, whatever the pumps do.
C9_AcceptNeverWaitsForPump ==
    (mainPc = "accept" /\ nConns < MaxConns) => ENABLED Accept

\* the listener can accept while an earlier pump is still copying
C9_Witness ==
    /\ mainPc = "accept"
    /\ nConns < MaxConns
    /\ \E i \in Conns : pump[i] = "running" /\ t1pc[i] = "read" /\ t2pc[i] = "read"
    /\ ENABLED Accept

\* C10: the listener is bound, connections are accepted and channel opens are
\* requested only with the session authenticated.
C10_OpensOnlyWhenAuthenticated ==
    (mainPc \in {"bind", "accept"} \/ nConns > 0 \/ opens > 0) => authenticated

\* a channel open has been requested
C10_Witness ==
    opens > 0 /\ authenticated

\* C11: a read that returns TimedOut changes the state of no copy loop: the
\* loop that met it is at its read again, any number of times; and a loop
\* that has stopped has stopped on a 0-byte read, on a non-timeout read error
\* or on a failed write (each non-timeout error counted in faults).
C11_TimeoutNeverStopsDirection ==
    /\ [](\A i \in Conns :
            /\ t1pc[i] = "stopped" => t1why[i] \in {"eof", "rderr", "wrerr"}
            /\ t2pc[i] = "stopped" => t2why[i] \in {"eof", "rderr", "wrerr"})
    /\ [][/\ timeouts' # timeouts =>
                /\ \E i \in Conns : t1pc[i] = "read" \/ t2pc[i] = "read"
                /\ UNCHANGED <<t1Vars, t2Vars, pump, timeout, faults>>
          /\ \A i \in Conns :
                /\ (t1pc[i] = "read" /\ t1pc'[i] = "stopped") =>
                      \/ t1why'[i] = "eof" /\ faults' = faults
                      \/ t1why'[i] = "rderr" /\ faults' = faults + 1
                /\ (t2pc[i] = "read" /\ t2pc'[i] = "stopped") =>
                      \/ t2why'[i] = "eof" /\ faults' = faults
                      \/ t2why'[i] = "rderr" /\ faults' = faults + 1]_vars

\* after as many timeouts as the run allows, both loops of a connection are
\* at their read and have forwarded bytes
C11_Witness ==
    \E i \in Conns :
        /\ timeouts = MaxTimeouts
        /\ t1pc[i] = "read" /\ t2pc[i] = "read"
        /\ Len(chanWritten[i]) > 0 /\ Len(locWritten[i]) > 0

\* C12: a pump that has ended has both its loops stopped, a pump past its
\* first join has its t1 stopped, and the timeout holds 3000 only when some
\* pump has ended: no pump restores the timeout or ends with a loop running.
C12_PumpEndsAfterBothDirections ==
    /\ \A i \in Conns :
          /\ pump[i] = "done" => t1pc[i] = "stopped" /\ t2pc[i] = "stopped"
          /\ pump[i] = "joined1" => t1pc[i] = "stopped"
    /\ timeout = LongTimeout => \E i \in Conns : pump[i] = "done"

\* a pump has ended and restored the timeout, after its t2 stopped last
C12_Witness ==
    \E i \in Conns :
        /\ pump[i] = "done"
        /\ timeout = LongTimeout
        /\ t1why[i] = "eof" /\ t2why[i] = "eof"
        /\ Len(locWritten[i]) > 0

\* C13: the step that starts the loops of pump i is taken with the channel of
\* connection i open and sets the timeout to 20, and no byte has been read
\* by either loop when it is taken; before it the loops are idle.
C13_TimeoutLoweredBeforeFirstRead ==
    /\ [](\A i \in Conns :
            pump[i] \in {"none", "spawned", "opened", "panicked"} =>
                /\ t1pc[i] = "idle" /\ t2pc[i] = "idle"
                /\ locRead[i] = <<>> /\ chanRead[i] = <<>>)
    /\ [][\A i \in Conns :
            ((t1pc[i] = "idle" /\ t1pc'[i] # "idle") \/ (t2pc[i] = "idle" /\ t2pc'[i] # "idle")) =>
                /\ pump[i] = "opened" /\ i \in DOMAIN streamId
                /\ timeout' = ShortTimeout
                /\ t1pc'[i] = "read" /\ t2pc'[i] = "read"
                /\ locRead'[i] = <<>> /\ chanRead'[i] = <<>>]_vars

\* the second pump has lowered the timeout again after the first one restored it
C13_Witness ==
    /\ pump[1] = "done"
    /\ pump[2] = "running"
    /\ timeout = ShortTimeout
    /\ locRead[2] = <<>> /\ chanRead[2] = <<>>

\* C14: the timeout is one value for all pumps.  Whenever it holds 3000 while
\* pump i is between its set_timeout(20) and its set_timeout(3000), another
\* pump has ended (and restored it); the witness shows such a state with a
\* loop of pump i still reading from its channel.
C14_LongTimeoutWhileRunningComesFromOtherPump ==
    \A i \in Conns :
        (timeout = LongTimeout /\ pump[i] \in {"running", "joined1"}) =>
            \E j \in Conns \ {i} : pump[j] = "done"

\* pump i's t2 is at its channel read under the timeout 3000 that pump j restored
C14_Witness ==
    \E i, j \in Conns :
        /\ i # j
        /\ pump[i] = "running" /\ t2pc[i] = "read" /\ t1pc[i] = "read"
        /\ pump[j] = "done"
        /\ timeout = LongTimeout

\* C15: on one shared counter, at most one caller is between the lock and its
\* return; the counter is its first value plus the number of opens that have
\* returned Ok (+1 for each successful open, nothing for a failed one); a
\* caller that has taken its streams and not yet incremented read the
\* counter's current value; and no two callers read the same value.
C15_CounterPlusOneUnderLock ==
    /\ Cardinality(Holders) <= 1
    /\ counter[1] = FirstStreamId + Cardinality({c \in Callers : pump[c] = "opened"})
    /\ \A c \in Callers : pump[c] = "streams" => streamId[c] = counter[1]
    /\ DOMAIN streamId = {c \in Callers : pump[c] \in {"streams", "opened"}}
    /\ \A c, d \in DOMAIN streamId : c # d => streamId[c] # streamId[d]

\* two opens have succeeded and one has failed on the same counter
C15_Witness ==
    \E c, d, e \in Callers :
        /\ pump[c] = "opened" /\ pump[d] = "opened" /\ pump[e] = "panicked"
        /\ streamId[c] = FirstStreamId /\ streamId[d] = FirstStreamId + 1
        /\ counter[1] = FirstStreamId + 2

\* C16: the channel-open requests issued on the session are as many as the
\* accepted connections whose task has run its set-up, failed or not: one
\* request for each, never a second one; and a channel is open for exactly
\* the connections whose request succeeded.
C16_OneOpenRequestPerConnection ==
    /\ opens = Cardinality({i \in Conns : pump[i] \notin {"none", "spawned"}})
    /\ opens <= nConns
    /\ {i \in Conns : pump[i] # "none"} = 1..nConns
    /\ DOMAIN streamId = {i \in Conns : pump[i] \notin {"none", "spawned", "panicked"}}

\* every accepted connection has made its request: one failed, one has a
\* channel and has ended
C16_Witness ==
    /\ nConns = MaxConns
    /\ opens = MaxConns
    /\ \E i, j \in Conns : pump[i] = "panicked" /\ pump[j] = "done"

\* C17: the step that stops one loop of a connection leaves the other loop
\* of the connection as it is.  While t2 of a pump whose t1 has been joined
\* has not stopped, the join of t2 is not enabled, so no scheduling, fair or
\* not, ends the pump; and the timeout becomes 3000 only in the step that
\* ends a pump whose two loops have stopped.
C17_DirectionsNotCancelled ==
    /\ [](\A i \in Conns :
            /\ (pump[i] = "joined1" /\ t2pc[i] # "stopped") => ~ENABLED Join2(i)
            /\ (pump[i] = "running" /\ t1pc[i] # "stopped") =>
                  ~ENABLED Join1(i) /\ ~ENABLED Join2(i))
    /\ [][/\ \A i \in Conns :
                /\ (t1pc[i] # "stopped" /\ t1pc'[i] = "stopped") =>
                      /\ t2pc'[i] = t2pc[i] /\ t2why'[i] = t2why[i]
                      /\ buf2'[i] = buf2[i] /\ chanRead'[i] = chanRead[i]
                      /\ locWritten'[i] = locWritten[i]
                /\ (t2pc[i] # "stopped" /\ t2pc'[i] = "stopped") =>
                      /\ t1pc'[i] = t1pc[i] /\ t1why'[i] = t1why[i]
                      /\ buf1'[i] = buf1[i] /\ locRead'[i] = locRead[i]
                      /\ chanWritten'[i] = chanWritten[i]
                /\ (pump[i] # "done" /\ pump'[i] = "done") =>
                      t1pc[i] = "stopped" /\ t2pc[i] = "stopped"
          /\ (timeout # LongTimeout /\ timeout' = LongTimeout) =>
                \E i \in Conns : pump[i] = "joined1" /\ pump'[i] = "done"]_vars

\* t1 has stopped and been joined, t2 has met only a timeout and is at its
\* read: the pump cannot end and the timeout stays lowered
C17_Witness ==
    \E i \in Conns :
        /\ pump[i] = "joined1"
        /\ t1pc[i] = "stopped"
        /\ t2pc[i] = "read" /\ chanRead[i] = <<>>
        /\ timeouts = MaxTimeouts
        /\ timeout = ShortTimeout
        /\ ~ENABLED Join2(i)

\* C18: the agent is tried exactly once, before any password; until then
\* nothing else has happened.  After it main is either authenticated without
\* any password attempt, or in the password loop, unauthenticated, every
\* attempt so far refused, or authenticated by the one accepted password
\* that followed the refused ones.
C18_AgentOnceThenPasswordLoop ==
    /\ agentAttempts = IF mainPc = "agent" THEN 0 ELSE 1
    /\ mainPc = "agent" => ~authenticated /\ pwAttempts = 0 /\ pwFails = 0
    /\ mainPc = "prompt" => ~authenticated /\ pwAttempts = pwFails
    /\ mainPc = "backoff" => ~authenticated /\ pwAttempts = pwFails /\ pwFails >= 1
    /\ mainPc = "panic" => ~authenticated /\ pwAttempts = pwFails
    /\ mainPc \in {"bind", "accept", "exit"} =>
          /\ authenticated
          /\ \/ pwAttempts = 0 /\ pwFails = 0
             \/ pwAttempts = pwFails + 1
    /\ mainPc \in {"agent", "prompt", "backoff", "panic", "bind", "accept", "exit"}

\* the agent authenticated the session: no password was asked for, and the
\* listener runs
C18_Witness ==
    /\ agentAttempts = 1
    /\ pwAttempts = 0
    /\ authenticated
    /\ mainPc = "accept"
    /\ nConns > 0

\* C19: a pump whose channel open has failed has started no loop, read and
\* written no byte and has no stream id; the step of the failed open leaves
\* the session timeout and every loop as they are, and while no pump has
\* started its loops the timeout is the session's initial one.
C19_FailedOpenTouchesNothing ==
    /\ [](/\ \A i \in Conns :
                pump[i] = "panicked" =>
                    /\ t1pc[i] = "idle" /\ t2pc[i] = "idle"
                    /\ locRead[i] = <<>> /\ chanWritten[i] = <<>>
                    /\ chanRead[i] = <<>> /\ locWritten[i] = <<>>
                    /\ i \notin DOMAIN streamId
          /\ (\A i \in Conns : pump[i] \in {"none", "spawned", "panicked", "opened"}) =>
                timeout = InitialTimeout)
    /\ [][\A i \in Conns :
            (pump[i] # "panicked" /\ pump'[i] = "panicked") =>
                /\ pump[i] = "spawned"
                /\ timeout' = timeout
                /\ UNCHANGED <<t1Vars, t2Vars, streamId, counter>>]_vars

\* an open failed while another pump had lowered the timeout, which is still 20
C19_Witness ==
    \E i, j \in Conns :
        /\ pump[i] = "panicked"
        /\ pump[j] = "running"
        /\ i > j
        /\ timeout = ShortTimeout

\* C20: when every pump that opened a channel has ended (no pump is between
\* its channel open and its set_timeout(3000)), the timeout is 3000 if some
\* pump has ended and the session's initial value otherwise.
C20_TimeoutWhenNoPumpRuns ==
    (\A i \in Conns : pump[i] \in {"none", "spawned", "panicked", "done"}) =>
        timeout = IF \E i \in Conns : pump[i] = "done" THEN LongTimeout ELSE InitialTimeout

\* two pumps have lowered and restored the timeout, and both have ended
C20_Witness ==
    /\ pump[1] = "done"
    /\ pump[2] = "done"
    /\ Len(chanWritten[1]) > 0 /\ Len(chanWritten[2]) > 0
    /\ timeout = LongTimeout

====
